---- MODULE Spec2Model ----
(***************************************************************************)
(* Material-Scraper: scraper.py.                                           *)
(*                                                                         *)
(* Six state machines share this module.                                   *)
(*   Spec        main(): scrape_all over the configured suppliers and      *)
(*               categories, scrape_category's traversal loops, write_json.*)
(*   SpecPrice   parse_price_with_currency applied to a bounded price text.*)
(*   SpecUrl     resolve_url applied to a bounded href and a base URL.     *)
(*   SpecText    clean_text applied to a bounded text, then to its result. *)
(*   SpecCollect collect_current_page applied to one rendered page.        *)
(*   SpecExtract extract_from_card applied to one card.                    *)
(* Strings the code slices or concatenates (URLs, price texts) are tuples  *)
(* of one-character strings; Python's None is the string "None" where a    *)
(* value is only tested for truthiness.  An Optional[str] argument that    *)
(* the code tests with `not` before anything else (href, s) is the empty   *)
(* tuple for both of its falsy values, None and "".                        *)
(***************************************************************************)
EXTENDS Integers, Sequences, FiniteSets, TLC

VARIABLES
    cfg,            \* ScraperConfig.suppliers, as load_config built it
    min_items,      \* args.min_items
    pc,             \* position of main / scrape_all / scrape_category
    si,             \* index of supplier_cfg in cfg.suppliers
    ci,             \* index of cat in supplier_cfg.categories
    all_items,      \* scrape_all: all_items
    supplier_items, \* scrape_all: supplier_items
    target_min,     \* scrape_category: target_min
    items,          \* scrape_category: items
    seen_keys,      \* scrape_category: seen_keys
    pages_seen,     \* scrape_category: pages_seen
    scroll_step,    \* scrape_category: scroll_step of the for loop
    page,           \* the browser page: its paging controls
    new_log,        \* values returned by collect_current_page in this call
    next_clicks,    \* next_button.click() calls made in this call
    calls,          \* the scrape_category calls of scrape_all, in call order
    output,         \* the "items" of the document write_json wrote
    text,           \* parse_price_with_currency: its argument
    price,          \* parse_price_with_currency: the call's outcome
    urlcall,        \* resolve_url: its arguments and what it returned
    cleaned,        \* clean_text: its argument and what it returned
    pagecall,       \* collect_current_page: one call and what it left
    cardcall        \* extract_from_card: its arguments and what it returned

vars == <<cfg, min_items, pc, si, ci, all_items, supplier_items, target_min,
          items, seen_keys, pages_seen, scroll_step, page, new_log,
          next_clicks, calls, output, text, price, urlcall, cleaned,
          pagecall, cardcall>>

scrapeVars == <<cfg, min_items, pc, si, ci, all_items, supplier_items,
                target_min, items, seen_keys, pages_seen, scroll_step, page,
                new_log, next_clicks, calls, output>>

priceVars == <<text, price>>

\* the state of the functions checked on their own
pureVars == <<text, price, urlcall, cleaned, pagecall, cardcall>>

(***************************************************************************)
(* Bounds of the model.                                                    *)
(***************************************************************************)
MaxPagesCfg == 2    \* paging.max_pages is drawn from 0..MaxPagesCfg
MaxScrollCfg == 4   \* paging.scroll_steps is drawn from 0..MaxScrollCfg
MaxCards == 2       \* cards rendered on one page
MaxMinItems == 2    \* --min-items is drawn from 0..MaxMinItems
MaxLen == 5         \* length of a price text
MaxHrefLen == 5     \* length of an href handed to resolve_url
MaxTextLen == 5     \* length of a text handed to clean_text
MaxCollectCards == 3 \* cards of the page collect_current_page is checked on

(***************************************************************************)
(* Program constants.                                                      *)
(***************************************************************************)
DefaultMaxPages == 12
DefaultScrollSteps == 25
NoNewItemsFromStep == 2

Max(a, b) == IF a >= b THEN a ELSE b

\* Python truthiness of an Optional[str]
Truthy(s) == s \notin {"None", ""}

\* dict.get(key, default)
Get(d, key, default) == IF key \in DOMAIN d THEN d[key] ELSE default

(***************************************************************************)
(* resolve_url                                                             *)
(***************************************************************************)
StartsWith(s, prefix) ==
    /\ Len(s) >= Len(prefix)
    /\ SubSeq(s, 1, Len(prefix)) = prefix

RECURSIVE RStrip(_, _)
RStrip(s, ch) ==
    IF s # <<>> /\ s[Len(s)] = ch THEN RStrip(SubSeq(s, 1, Len(s) - 1), ch)
    ELSE s

resolve_url(href, base_url) ==
    IF href = <<>> THEN <<>>
    ELSE IF StartsWith(href, <<"h", "t", "t", "p">>) THEN href
    ELSE IF StartsWith(href, <<"/">>) THEN RStrip(base_url, "/") \o href
    ELSE RStrip(base_url, "/") \o <<"/">> \o href

(***************************************************************************)
(* parse_price_with_currency.  An amount is the decimal number the float   *)
(* stands for: its whole part and its fraction digits without trailing     *)
(* zeros (49.90 == 49.9); NoneAmount is Python's None.                     *)
(***************************************************************************)
DigitChars == {"0", "1", "2", "3", "4", "5", "6", "7", "8", "9"}
IsDigit(c) == c \in DigitChars
DigitValue(c) ==
    CASE c = "0" -> 0 [] c = "1" -> 1 [] c = "2" -> 2 [] c = "3" -> 3
      [] c = "4" -> 4 [] c = "5" -> 5 [] c = "6" -> 6 [] c = "7" -> 7
      [] c = "8" -> 8 [] c = "9" -> 9

\* whitespace of str.strip() and of the regex class \s
IsSpace(c) == c \in {" ", "\t", "\n", "\r"}

Contains(s, c) == \E i \in DOMAIN s : s[i] = c
Count(s, c) == Cardinality({i \in DOMAIN s : s[i] = c})
\* str.replace(a, b) and str.replace(a, "") for a one-character a
Replace(s, a, b) == [i \in DOMAIN s |-> IF s[i] = a THEN b ELSE s[i]]
Remove(s, a) == SelectSeq(s, LAMBDA c : c # a)

SetMax(S) == CHOOSE x \in S : \A y \in S : y <= x
SetMin(S) == CHOOSE x \in S : \A y \in S : x <= y

RECURSIVE LStripSpace(_)
LStripSpace(s) ==
    IF s # <<>> /\ IsSpace(s[1]) THEN LStripSpace(Tail(s)) ELSE s

RECURSIVE RStripSpace(_)
RStripSpace(s) ==
    IF s # <<>> /\ IsSpace(s[Len(s)])
    THEN RStripSpace(SubSeq(s, 1, Len(s) - 1))
    ELSE s

\* re.sub(r"\s+", " ", s): every maximal run of whitespace becomes one space
RECURSIVE SubWhitespaceRuns(_)
SubWhitespaceRuns(s) ==
    IF s = <<>> THEN <<>>
    ELSE IF IsSpace(s[1]) THEN <<" ">> \o SubWhitespaceRuns(LStripSpace(s))
    ELSE <<s[1]>> \o SubWhitespaceRuns(Tail(s))

\* lines 66-69 without the strip() of line 69
clean_textNoStrip(s) ==
    IF s = <<>> THEN <<>> ELSE SubWhitespaceRuns(s)

\* lines 66-69
clean_text(s) ==
    IF s = <<>> THEN <<>>
    ELSE RStripSpace(LStripSpace(SubWhitespaceRuns(s)))

\* line 33: the two no-break spaces become spaces, then strip()
CleanPriceText(txt) ==
    RStripSpace(LStripSpace(Replace(Replace(txt, "nbsp", " "), "nnbsp", " ")))

\* lines 34-38
CurrencySymbols == <<"€", "$", "£", "₹">>

\* lines 35-38 as they would read if the symbol met first in the text won
DetectCurrencyByPosition(t) ==
    LET at == {i \in DOMAIN t : Contains(CurrencySymbols, t[i])}
    IN IF at = {} THEN "None" ELSE t[SetMin(at)]

DetectCurrency(t) ==
    LET found == {k \in DOMAIN CurrencySymbols : Contains(t, CurrencySymbols[k])}
    IN IF found = {} THEN "None" ELSE CurrencySymbols[SetMin(found)]

RECURSIVE NatOf(_)
NatOf(ds) ==
    IF ds = <<>> THEN 0
    ELSE 10 * NatOf(SubSeq(ds, 1, Len(ds) - 1)) + DigitValue(ds[Len(ds)])

RECURSIVE DropTrailingZeros(_)
DropTrailingZeros(ds) ==
    IF ds # <<>> /\ ds[Len(ds)] = "0"
    THEN DropTrailingZeros(SubSeq(ds, 1, Len(ds) - 1))
    ELSE ds

NoneAmount == [none |-> TRUE, whole |-> 0, frac |-> <<>>]
Amount(wholeDigits, fracDigits) ==
    [none |-> FALSE, whole |-> NatOf(wholeDigits),
     frac |-> DropTrailingZeros(fracDigits)]

\* float(s) for s without sign or exponent: digits with at most one point
FloatParses(s) ==
    /\ \A i \in DOMAIN s : IsDigit(s[i]) \/ s[i] = "."
    /\ Count(s, ".") <= 1
    /\ \E i \in DOMAIN s : IsDigit(s[i])

FloatOf(s) ==
    IF Contains(s, ".")
    THEN LET d == CHOOSE i \in DOMAIN s : s[i] = "."
         IN Amount(SubSeq(s, 1, d - 1), SubSeq(s, d + 1, Len(s)))
    ELSE Amount(s, <<>>)

\* _NUM_GROUP = (\d[\d\s.,]*\d): end of the greedy match that starts at i,
\* 0 when there is none
InNumClass(c) == IsDigit(c) \/ IsSpace(c) \/ c \in {".", ","}

NumGroupEnd(t, i) ==
    LET ends == {k \in (i + 1)..Len(t) :
                    /\ \A m \in (i + 1)..k : InNumClass(t[m])
                    /\ IsDigit(t[k])}
    IN IF IsDigit(t[i]) /\ ends # {} THEN SetMax(ends) ELSE 0

\* _NUM_GROUP.search(t).group(1), <<>> when there is no match
NumGroupSearch(t) ==
    LET starts == {i \in DOMAIN t : NumGroupEnd(t, i) # 0}
    IN IF starts = {} THEN <<>>
       ELSE SubSeq(t, SetMin(starts), NumGroupEnd(t, SetMin(starts)))

\* lines 42-50 with every comma taken for a decimal point
NormalizeNumberCommaAlwaysPoint(group) ==
    LET num == Remove(group, " ")
    IN IF Contains(num, ",") /\ Contains(num, ".")
       THEN Replace(Remove(num, "."), ",", ".")
       ELSE Replace(num, ",", ".")

\* lines 42-50: the separators of the matched group
NormalizeNumber(group) ==
    LET num == Remove(group, " ")
    IN IF Contains(num, ",") /\ Contains(num, ".")
       THEN Replace(Remove(num, "."), ",", ".")
       ELSE IF Contains(num, ",")
            THEN IF Count(num, ",") = 1 THEN Replace(num, ",", ".")
                 ELSE Remove(num, ",")
            ELSE num

\* _EURO_SPLIT = (\d+)\D+(\d{2}): the match that starts at i is the digit
\* run from i, the whole run of non-digits after it, and two digits
DigitRunEnd(t, i) ==
    SetMax({k \in i..Len(t) : \A m \in i..k : IsDigit(t[m])})

NonDigitRunEnd(t, i) ==
    SetMax({i - 1} \cup {k \in i..Len(t) : \A m \in i..k : ~IsDigit(t[m])})

EuroSplitAt(t, i) ==
    /\ IsDigit(t[i])
    /\ LET e == DigitRunEnd(t, i)
           n == NonDigitRunEnd(t, e + 1)
       IN /\ n > e
          /\ n + 2 <= Len(t)
          /\ IsDigit(t[n + 1]) /\ IsDigit(t[n + 2])

\* _EURO_SPLIT.search(t): <<group(1), group(2)>>, <<>> when there is no match
EuroSplitSearch(t) ==
    LET starts == {i \in DOMAIN t : EuroSplitAt(t, i)}
    IN IF starts = {} THEN <<>>
       ELSE LET i == SetMin(starts)
                e == DigitRunEnd(t, i)
                n == NonDigitRunEnd(t, e + 1)
            IN <<SubSeq(t, i, e), SubSeq(t, n + 1, n + 2)>>

\* lines 30-63; num is the string handed to float() at line 52
parse_price_with_currency(txt) ==
    IF txt = <<>>
    THEN [currency |-> "None", amount |-> NoneAmount, num |-> <<>>]
    ELSE
        LET t == CleanPriceText(txt)
            currency == DetectCurrency(t)
            group == NumGroupSearch(t)
            num == IF group = <<>> THEN <<>> ELSE NormalizeNumber(group)
            m2 == EuroSplitSearch(t)
        IN IF group # <<>> /\ FloatParses(num)
           THEN [currency |-> currency, amount |-> FloatOf(num), num |-> num]
           ELSE IF m2 # <<>>
           THEN [currency |-> IF currency = "None" THEN "€" ELSE currency,
                 amount |-> Amount(m2[1], m2[2]), num |-> num]
           ELSE [currency |-> currency, amount |-> NoneAmount, num |-> num]


(***************************************************************************)
(* load_config: the paging section of a category is a dict whose keys may  *)
(* be absent; a CategoryConfig gets the defaults of lines 111-116.  The    *)
(* card selector and scroll_wait_ms do not influence the traversal and are *)
(* left out of the record.                                                 *)
(***************************************************************************)
CategoryConfig(c) ==
    LET paging == Get(c, "paging", <<>>) IN
    [name |-> c.name,
     url |-> c.url,
     paging_mode |-> Get(paging, "mode", "none"),
     next_button |-> Get(paging, "next_button", "None"),
     max_pages |-> Get(paging, "max_pages", DefaultMaxPages),
     load_more_button |-> Get(paging, "load_more_button", "None"),
     scroll_steps |-> Get(paging, "scroll_steps", DefaultScrollSteps)]

load_config(raw) ==
    [s \in DOMAIN raw |->
        [supplier |-> raw[s].supplier,
         base_url |-> raw[s].base_url,
         categories |-> [c \in DOMAIN raw[s].categories |->
                            CategoryConfig(raw[s].categories[c])]]]

(***************************************************************************)
(* Configuration documents the model runs.                                 *)
(***************************************************************************)
BaseUrlTest == <<"h", "t", "t", "p", ":", "/", "/", "s">>
BaseUrlMano == <<"h", "t", "t", "p", ":", "/", "/", "m">>

BaseUrlOf(supplier) == IF supplier = "ManoMano" THEN BaseUrlMano ELSE BaseUrlTest

\* optional key of a paging dict: absent, or present with one of the values
OptKey(key, values) == {<<>>} \cup {(key :> v) : v \in values}

ScrollPagings ==
    {[mode |-> "infinite_scroll", scroll_steps |-> n] : n \in 0..MaxScrollCfg}

PagePagings ==
    {m @@ nb @@ [max_pages |-> mp] :
        m \in OptKey("mode", {"none", "pagination"}),
        nb \in OptKey("next_button", {".next"}),
        mp \in 0..MaxPagesCfg}

LoadMorePagings ==
    {[mode |-> "load_more", max_pages |-> mp] @@ nb @@ lm :
        nb \in OptKey("next_button", {".next"}),
        lm \in OptKey("load_more_button", {".more"}),
        mp \in 0..MaxPagesCfg}

RawCategory(n, paging) ==
    [name |-> n, url |-> n, selectors |-> [card |-> ".card"],
     paging |-> paging]

\* one supplier with one category, every paging section
SingleRaw ==
    {<<[supplier |-> s, base_url |-> BaseUrlOf(s),
        categories |-> <<RawCategory("c1", p)>>]>> :
        s \in {"TestSupplier", "ManoMano"},
        p \in ScrollPagings \cup PagePagings \cup LoadMorePagings}

\* paging sections of the runs over several categories
MultiPagings ==
    {<<>>, [mode |-> "pagination", next_button |-> ".next", max_pages |-> 2]}

\* two suppliers entries of the same supplier, the first with two categories
MultiRaw ==
    {<<[supplier |-> "TestSupplier", base_url |-> BaseUrlTest,
        categories |-> <<RawCategory("c1", p1), RawCategory("c2", <<>>)>>],
       [supplier |-> "TestSupplier", base_url |-> BaseUrlTest,
        categories |-> <<RawCategory("c3", <<>>)>>]>> :
        p1 \in MultiPagings}

RawConfigs == SingleRaw \cup MultiRaw

(***************************************************************************)
(* The browser page.  A card is what the lookups of extract_from_card find *)
(* in it: the name text, the href attribute, the unit text, the price      *)
(* text, the brand text, the image attribute, and whether the lookups on   *)
(* its handle throw.  With its price text a card carries parsed, what      *)
(* parse_price_with_currency returns for that text at lines 250, 332 and   *)
(* 401, so that the text is parsed once per card.                          *)
(***************************************************************************)
PriceText29 == <<"2", "9", "€">>

\* the price texts cards show: none, "29€" and "9,2"
CardPriceTexts == {<<>>, PriceText29, <<"9", ",", "2">>}

\* the cards of the traversal show a name and a link only
Card(name, href, raises) ==
    [name |-> name, href |-> href, unit |-> "", raises |-> raises,
     price_text |-> <<>>, parsed |-> parse_price_with_currency(<<>>),
     brand |-> "", image |-> ""]

CardA == Card("A", <<"/", "a">>, FALSE)
CardB == Card("B", <<"/", "b">>, FALSE)
CardNoHref == Card("A", <<>>, FALSE)
CardRaises == Card("B", <<"/", "b">>, TRUE)

Cards == {CardA, CardB, CardNoHref, CardRaises}

SeqsUpTo(S, n) == UNION {[1..k -> S] : k \in 0..n}

\* the cards a page renders, read by collect_current_page (lines 587-588)
PageCards == SeqsUpTo(Cards, MaxCards)

\* the paging controls of the rendered page; more: the load-more control is
\* present, visible and enabled.  The next control is read only by lines
\* 658-671 and drawn there.
Pages == [more : BOOLEAN]

\* what locating and clicking the next control does (lines 658-671):
\* is_visible() of line 659 returns False for a control that is absent or
\* hidden and throws for a selector it cannot evaluate; click() of line 666
\* throws when the control does not become enabled before its timeout
NextOutcomes == {"clicked", "not_visible", "click_throws", "is_visible_throws"}

(***************************************************************************)
(* extract_from_card.  In the generic path every lookup goes through       *)
(* first_text / first_attr, which swallow exceptions and return "": a card *)
(* whose lookups throw yields empty fields.  In the bespoke paths the      *)
(* first lookup is unguarded and the handler of lines 300-318 / 381-397    *)
(* returns the sentinel.                                                   *)
(***************************************************************************)
Bespoke == {"ManoMano", "Leroy Merlin"}

\* the dict of lines 286-297, 368-379, 457-468 without its timestamp
Listing(supplier, category_name, name, amount, currency, url, brand, unit, image_url) ==
    [supplier |-> supplier, category |-> category_name, name |-> name,
     price |-> amount, currency |-> currency, url |-> url, brand |-> brand,
     unit |-> unit, image_url |-> image_url]

\* the dict of lines 306-318, 385-397; error is str(e)
Sentinel(supplier, category_name, base_url) ==
    Listing(supplier, category_name, "Error extracting product",
            Amount(<<"0">>, <<>>), "€", base_url, "", "", "")
        @@ [error |-> "lookup failed"]

\* extract_from_card with the bespoke paths unguarded like the generic one:
\* a card whose lookups throw yields empty fields for every supplier
extract_from_cardWithoutSentinel(card, category_name, supplier, base_url) ==
    LET parsed == card.parsed IN
    IF card.raises THEN
        Listing(supplier, category_name, "", NoneAmount, "None",
                resolve_url(<<>>, base_url), "", "", "")
    ELSE Listing(supplier, category_name, card.name, parsed.amount,
                 parsed.currency, resolve_url(card.href, base_url),
                 card.brand,
                 IF supplier = "ManoMano" THEN "" ELSE card.unit,
                 card.image)

\* lines 235-470.  The price is parse_price_with_currency of the price text
\* (lines 250, 332, 401), carried by the card; for the "" of a failed lookup
\* it is (None, None).
extract_from_card(card, category_name, supplier, base_url) ==
    LET parsed == card.parsed IN
    IF supplier \in Bespoke THEN
        IF card.raises THEN Sentinel(supplier, category_name, base_url)
        ELSE Listing(supplier, category_name, card.name, parsed.amount,
                     parsed.currency, resolve_url(card.href, base_url),
                     card.brand,
                     IF supplier = "ManoMano" THEN "" ELSE card.unit,
                     card.image)
    ELSE IF card.raises THEN
        Listing(supplier, category_name, "", NoneAmount, "None",
                resolve_url(<<>>, base_url), "", "", "")
    ELSE Listing(supplier, category_name, card.name, parsed.amount,
                 parsed.currency, resolve_url(card.href, base_url),
                 card.brand, card.unit, card.image)

(***************************************************************************)
(* scrape_category.collect_current_page                                    *)
(***************************************************************************)
KeyOf(item) == <<item.supplier, item.url, item.name, item.unit>>

\* line 607 without its test of the url
RetainedWhenNamed(item, base_url) == item.name # ""

\* line 607: only valid items are added
Retained(item, base_url) == item.name # "" /\ item.url # base_url

RECURSIVE CollectFrom(_, _, _, _, _)

\* the loop of lines 592-614 as it would run if the try of line 593 enclosed
\* the for of line 592: the first card whose lookups throw ends the page
CollectFromStopsAtRaise(cards, i, acc, cat, supplier) ==
    IF i > Len(cards) \/ cards[i].raises THEN acc
    ELSE
        LET item == extract_from_card(cards[i], cat.name, supplier.supplier,
                                      supplier.base_url)
            key == KeyOf(item)
        IN IF Retained(item, supplier.base_url) /\ key \notin acc.seen_keys
           THEN CollectFrom(cards, i + 1,
                            [items |-> Append(acc.items, item),
                             seen_keys |-> acc.seen_keys \cup {key},
                             collected |-> acc.collected + 1],
                            cat, supplier)
           ELSE CollectFrom(cards, i + 1, acc, cat, supplier)

\* the loop of lines 592-614 without the test of line 609: every valid item
\* is appended and counted, seen before or not
CollectFromWithoutSeenTest(cards, i, acc, cat, supplier) ==
    IF i > Len(cards) THEN acc
    ELSE
        LET item == extract_from_card(cards[i], cat.name, supplier.supplier,
                                      supplier.base_url)
            key == KeyOf(item)
        IN IF Retained(item, supplier.base_url)
           THEN CollectFrom(cards, i + 1,
                            [items |-> Append(acc.items, item),
                             seen_keys |-> acc.seen_keys \cup {key},
                             collected |-> acc.collected + 1],
                            cat, supplier)
           ELSE CollectFrom(cards, i + 1, acc, cat, supplier)

\* lines 592-614, from card i on.  Nothing in the try of line 593 raises:
\* cards.nth is lazy, the screenshot is guarded, and extract_from_card
\* turns a card whose lookups throw into empty fields or into the sentinel,
\* which line 607 drops; the handler of line 613 skips to the next card.
CollectFrom(cards, i, acc, cat, supplier) ==
    IF i > Len(cards) THEN acc
    ELSE
        LET item == extract_from_card(cards[i], cat.name, supplier.supplier,
                                      supplier.base_url)
            key == KeyOf(item)
        IN IF Retained(item, supplier.base_url) /\ key \notin acc.seen_keys
           THEN CollectFrom(cards, i + 1,
                            [items |-> Append(acc.items, item),
                             seen_keys |-> acc.seen_keys \cup {key},
                             collected |-> acc.collected + 1],
                            cat, supplier)
           ELSE CollectFrom(cards, i + 1, acc, cat, supplier)

collect_current_page(cards, its, seen, cat, supplier) ==
    CollectFrom(cards, 1, [items |-> its, seen_keys |-> seen, collected |-> 0],
                cat, supplier)

(***************************************************************************)
(* Conditions of scrape_category and scrape_all                            *)
(***************************************************************************)
\* line 704 as it would read if the supplier's own items were subtracted too
TargetMinLessSupplier(goal, collected_all, collected_supplier) ==
    goal - Len(collected_all) - Len(collected_supplier)

\* line 704: the target passed to scrape_category
TargetMin(goal, collected_all, collected_supplier) == goal - Len(collected_all)

\* lines 630, 648
ReachedTarget(its, target) == Len(its) >= target

\* line 652 with > in place of >=
ReachedMaxPagesLate(seen, max_pages) == seen > max_pages

\* line 652
ReachedMaxPages(seen, max_pages) == seen >= max_pages

\* line 634 without the scroll_step test
NoNewItemsStopAtOnce(new_items, step) == new_items = 0

\* line 634
NoNewItemsStop(new_items, step) == new_items = 0 /\ step >= NoNewItemsFromStep

(***************************************************************************)
(* The run: main -> scrape_all -> scrape_category -> write_json            *)
(***************************************************************************)
Supplier == cfg[si]
Category == cfg[si].categories[ci]

NoPage == [more |-> FALSE]
NoPrice == [called |-> FALSE, currency |-> "None", amount |-> NoneAmount,
            num |-> <<>>]

PriceIdle == text = <<>> /\ price = NoPrice

NoUrl == [called |-> FALSE, href |-> <<>>, base_url |-> <<>>, result |-> <<>>]
UrlIdle == urlcall = NoUrl

NoCleaned == [calls |-> 0, s |-> <<>>, once |-> <<>>, twice |-> <<>>]
CleanIdle == cleaned = NoCleaned

NoPageCall == [called |-> FALSE]
CollectIdle == pagecall = NoPageCall

NoCardCall == [called |-> FALSE]
ExtractIdle == cardcall = NoCardCall

\* main after parse_args and load_config (lines 734-735)
Init ==
    /\ cfg \in {load_config(raw) : raw \in RawConfigs}
    /\ min_items \in 0..MaxMinItems
    /\ pc = "main"
    /\ si = 1 /\ ci = 1
    /\ all_items = <<>> /\ supplier_items = <<>>
    /\ target_min = 0
    /\ items = <<>> /\ seen_keys = {}
    /\ pages_seen = 0 /\ scroll_step = 0
    /\ page = NoPage
    /\ new_log = <<>> /\ next_clicks = 0
    /\ calls = <<>>
    /\ output = <<>>
    /\ PriceIdle /\ UrlIdle /\ CleanIdle /\ CollectIdle /\ ExtractIdle

\* scrape_all, lines 683-696: the browser, the context and the page
Launch ==
    /\ pc = "main"
    /\ pc' = "categories"
    /\ all_items' = <<>> /\ supplier_items' = <<>>
    /\ si' = 1 /\ ci' = 1
    /\ UNCHANGED <<cfg, min_items, target_min, items, seen_keys, pages_seen,
                   scroll_step, page, new_log, next_clicks, calls, output>>
    /\ UNCHANGED pureVars

\* launch, new_context or new_page raises (lines 687-696): nothing in
\* scrape_all or main handles it, the process ends at line 736
LaunchFails ==
    /\ pc = "main"
    /\ pc' = "crashed"
    /\ UNCHANGED <<cfg, min_items, si, ci, all_items, supplier_items,
                   target_min, items, seen_keys, pages_seen, scroll_step, page,
                   new_log, next_clicks, calls, output>>
    /\ UNCHANGED pureVars

\* the record of a scrape_category call: the category, how the traversal
\* ended, whether the call raised, the items it held when it ended and the
\* list it returned
CallRecord(ended, raised, held, got) ==
    [si |-> si, ci |-> ci, ended |-> ended, raised |-> raised,
     held |-> held, got |-> got]

\* the record of the running call, changed when the traversal ends
EndCall(ended, raised, held, got) ==
    [calls EXCEPT ![Len(calls)] = CallRecord(ended, raised, held, got)]

\* scrape_all, lines 698-714: what follows a category that contributed `got`
\* (its items, or nothing when it raised): supplier_items.extend, the next
\* category, and after the supplier's last one all_items.extend and the
\* next supplier.  The locals of the finished call are gone.
AfterCategory(got) ==
    /\ IF ci < Len(Supplier.categories)
       THEN /\ supplier_items' = supplier_items \o got
            /\ all_items' = all_items
            /\ ci' = ci + 1 /\ si' = si
            /\ pc' = "categories"
       ELSE /\ supplier_items' = <<>>
            /\ all_items' = all_items \o supplier_items \o got
            /\ ci' = 1 /\ si' = si + 1
            /\ pc' = IF si < Len(cfg) THEN "categories" ELSE "close"
    /\ target_min' = 0
    /\ items' = <<>> /\ seen_keys' = {}
    /\ pages_seen' = 0 /\ scroll_step' = 0
    /\ new_log' = <<>> /\ next_clicks' = 0

\* scrape_all line 704 calls scrape_category; lines 508-583: page.goto
\* renders the category page (the cookie-consent steps are best effort and
\* change nothing the traversal reads), the locals are initialised, and
\* line 619 selects the loop.  range(cat.scroll_steps) is empty for 0.
CallScrapeCategory ==
    /\ pc = "categories"
    /\ target_min' = TargetMin(min_items, all_items, supplier_items)
    /\ page' \in Pages
    /\ items' = <<>> /\ seen_keys' = {}
    /\ pages_seen' = 0 /\ scroll_step' = 0
    /\ new_log' = <<>> /\ next_clicks' = 0
    /\ pc' = IF Category.paging_mode = "infinite_scroll"
             THEN IF Category.scroll_steps > 0 THEN "scroll" ELSE "cat_return"
             ELSE "paging"
    /\ calls' = Append(calls,
                       CallRecord(IF Category.paging_mode = "infinite_scroll"
                                     /\ Category.scroll_steps <= 0
                                  THEN "stop" ELSE "running",
                                  FALSE, <<>>, <<>>))
    /\ UNCHANGED <<cfg, min_items, si, ci, all_items, supplier_items, output>>
    /\ UNCHANGED pureVars

\* page.goto raises, as it would go on if the try of line 703 enclosed the
\* loop of line 702: the supplier's remaining categories are skipped
ScrapeCategoryRaisesEndsSupplier ==
    /\ pc = "categories"
    /\ supplier_items' = <<>>
    /\ all_items' = all_items \o supplier_items
    /\ ci' = 1 /\ si' = si + 1
    /\ pc' = IF si < Len(cfg) THEN "categories" ELSE "close"
    /\ target_min' = 0
    /\ items' = <<>> /\ seen_keys' = {}
    /\ pages_seen' = 0 /\ scroll_step' = 0
    /\ new_log' = <<>> /\ next_clicks' = 0
    /\ calls' = Append(calls, CallRecord("goto_raised", TRUE, <<>>, <<>>))
    /\ page' = NoPage
    /\ UNCHANGED <<cfg, min_items, output>>
    /\ UNCHANGED pureVars

\* page.goto raises (line 512): scrape_category raises before collecting,
\* scrape_all's handler (lines 707-710) reports it and the loop goes on
ScrapeCategoryRaises ==
    /\ pc = "categories"
    /\ AfterCategory(<<>>)
    /\ calls' = Append(calls, CallRecord("goto_raised", TRUE, <<>>, <<>>))
    /\ page' = NoPage
    /\ UNCHANGED <<cfg, min_items, output>>
    /\ UNCHANGED pureVars

\* one iteration of the for loop of lines 620-636: scroll, wait, collect,
\* the two stop conditions, and the loop's own end
ScrollIteration ==
    /\ pc = "scroll"
    /\ \E p \in Pages, cards \in PageCards :
        LET r == collect_current_page(cards, items, seen_keys, Category,
                                      Supplier)
        IN /\ page' = p
           /\ items' = r.items
           /\ seen_keys' = r.seen_keys
           /\ new_log' = Append(new_log, r.collected)
           /\ IF ReachedTarget(r.items, target_min)
                 \/ NoNewItemsStop(r.collected, scroll_step)
                 \/ scroll_step + 1 >= Category.scroll_steps
              THEN /\ pc' = "cat_return" /\ scroll_step' = scroll_step
                   /\ calls' = EndCall("stop", FALSE, <<>>, <<>>)
              ELSE /\ pc' = "scroll" /\ scroll_step' = scroll_step + 1
                   /\ calls' = calls
    /\ UNCHANGED <<cfg, min_items, si, ci, all_items, supplier_items,
                   target_min, pages_seen, next_clicks, output>>
    /\ UNCHANGED pureVars

\* one iteration of the while loop of lines 639-677: count the page,
\* collect, the stop conditions, then the next control.  When is_visible()
\* throws at line 659, outside the try of line 660, scrape_category raises
\* with what it held and scrape_all's handler (lines 707-710) goes on.
PageIteration ==
    /\ pc = "paging"
    /\ \E cards \in PageCards :
       LET r == collect_current_page(cards, items, seen_keys, Category,
                                     Supplier)
           Collected ==
               /\ pages_seen' = pages_seen + 1
               /\ items' = r.items
               /\ seen_keys' = r.seen_keys
               /\ new_log' = Append(new_log, r.collected)
               /\ UNCHANGED <<si, ci, all_items, supplier_items, target_min,
                              scroll_step>>
       IN IF ReachedTarget(r.items, target_min)
             \/ ReachedMaxPages(pages_seen + 1, Category.max_pages)
             \/ ~Truthy(Category.next_button)
          THEN /\ Collected
               /\ pc' = "cat_return" /\ UNCHANGED <<page, next_clicks>>
               /\ calls' = EndCall("stop", FALSE, <<>>, <<>>)
          ELSE \E o \in NextOutcomes :
                 CASE o = "clicked" ->
                        /\ Collected
                        /\ page' \in Pages
                        /\ next_clicks' = next_clicks + 1
                        /\ pc' = "paging"
                        /\ calls' = calls
                   [] o \in {"not_visible", "click_throws"} ->
                        /\ Collected
                        /\ pc' = "cat_return"
                        /\ UNCHANGED <<page, next_clicks>>
                        /\ calls' = EndCall(o, FALSE, <<>>, <<>>)
                   [] o = "is_visible_throws" ->
                        /\ AfterCategory(<<>>)
                        /\ page' = page
                        /\ calls' = EndCall(o, TRUE, r.items, <<>>)
    /\ UNCHANGED <<cfg, min_items, output>>
    /\ UNCHANGED pureVars

\* lines 679-680 and scrape_all lines 705-706, 713-714
CategoryReturns ==
    /\ pc = "cat_return"
    /\ AfterCategory(items)
    /\ calls' = EndCall(calls[Len(calls)].ended, FALSE, items, items)
    /\ page' = page
    /\ UNCHANGED <<cfg, min_items, output>>
    /\ UNCHANGED pureVars

\* scrape_all lines 716-718
CloseBrowser ==
    /\ pc = "close"
    /\ pc' = "write"
    /\ page' = NoPage
    /\ UNCHANGED <<cfg, min_items, si, ci, all_items, supplier_items,
                   target_min, items, seen_keys, pages_seen, scroll_step,
                   new_log, next_clicks, calls, output>>
    /\ UNCHANGED pureVars

\* browser.close() raises (line 716): nothing in scrape_all or main handles
\* it, the process ends at line 736 and all_items is dropped
CloseFails ==
    /\ pc = "close"
    /\ pc' = "crashed"
    /\ UNCHANGED <<cfg, min_items, si, ci, all_items, supplier_items,
                   target_min, items, seen_keys, pages_seen, scroll_step, page,
                   new_log, next_clicks, calls, output>>
    /\ UNCHANGED pureVars

\* main lines 736-737: write_json(rows, OUTPUT_JSON)
WriteJson ==
    /\ pc = "write"
    /\ output' = all_items
    /\ pc' = "done"
    /\ UNCHANGED <<cfg, min_items, si, ci, all_items, supplier_items,
                   target_min, items, seen_keys, pages_seen, scroll_step, page,
                   new_log, next_clicks, calls>>
    /\ UNCHANGED pureVars

Next ==
    \/ Launch
    \/ LaunchFails
    \/ CallScrapeCategory
    \/ ScrapeCategoryRaises
    \/ ScrollIteration
    \/ PageIteration
    \/ CategoryReturns
    \/ CloseBrowser
    \/ CloseFails
    \/ WriteJson

Spec == Init /\ [][Next]_vars

(***************************************************************************)
(* parse_price_with_currency on its own: one call on a bounded price text  *)
(***************************************************************************)
PriceChars == {"0", "2", "9", " ", "\t", ",", ".", "€", "$"}
PriceTexts == SeqsUpTo(PriceChars, MaxLen)

ScrapeIdle ==
    /\ cfg = <<>> /\ min_items = 0
    /\ pc = "idle"
    /\ si = 1 /\ ci = 1
    /\ all_items = <<>> /\ supplier_items = <<>>
    /\ target_min = 0
    /\ items = <<>> /\ seen_keys = {}
    /\ pages_seen = 0 /\ scroll_step = 0
    /\ page = NoPage
    /\ new_log = <<>> /\ next_clicks = 0
    /\ calls = <<>>
    /\ output = <<>>

InitPrice ==
    /\ ScrapeIdle
    /\ text \in PriceTexts
    /\ price = NoPrice
    /\ UrlIdle /\ CleanIdle /\ CollectIdle /\ ExtractIdle

ParsePrice ==
    /\ ~price.called
    /\ price' = [called |-> TRUE] @@ parse_price_with_currency(text)
    /\ text' = text
    /\ UNCHANGED scrapeVars
    /\ UNCHANGED <<urlcall, cleaned, pagecall, cardcall>>

NextPrice == ParsePrice

SpecPrice == InitPrice /\ [][NextPrice]_vars

(***************************************************************************)
(* resolve_url on its own: one call on a bounded href and a base URL       *)
(***************************************************************************)
UrlChars == {"h", "t", "p", "f", ":", "/"}
Hrefs == SeqsUpTo(UrlChars, MaxHrefLen)

\* base URLs: none, and the test supplier's with 0, 1 and 2 trailing slashes
BaseUrls ==
    {<<>>, BaseUrlTest, BaseUrlTest \o <<"/">>, BaseUrlTest \o <<"/", "/">>}

InitUrl ==
    /\ ScrapeIdle
    /\ PriceIdle /\ CleanIdle /\ CollectIdle /\ ExtractIdle
    /\ urlcall \in [called : {FALSE}, href : Hrefs, base_url : BaseUrls,
                    result : {<<>>}]

ResolveUrl ==
    /\ ~urlcall.called
    /\ urlcall' = [urlcall EXCEPT
                      !.called = TRUE,
                      !.result = resolve_url(urlcall.href, urlcall.base_url)]
    /\ UNCHANGED scrapeVars
    /\ UNCHANGED <<text, price, cleaned, pagecall, cardcall>>

NextUrl == ResolveUrl

SpecUrl == InitUrl /\ [][NextUrl]_vars

(***************************************************************************)
(* clean_text on its own: one call on a bounded text, then one on what it  *)
(* returned                                                                *)
(***************************************************************************)
TextChars == {"a", "b", " ", "\t", "\n"}
Texts == SeqsUpTo(TextChars, MaxTextLen)

InitText ==
    /\ ScrapeIdle
    /\ PriceIdle /\ UrlIdle /\ CollectIdle /\ ExtractIdle
    /\ cleaned \in [calls : {0}, s : Texts, once : {<<>>}, twice : {<<>>}]

CleanOnce ==
    /\ cleaned.calls = 0
    /\ cleaned' = [cleaned EXCEPT !.calls = 1, !.once = clean_text(cleaned.s)]
    /\ UNCHANGED scrapeVars
    /\ UNCHANGED <<text, price, urlcall, pagecall, cardcall>>

CleanAgain ==
    /\ cleaned.calls = 1
    /\ cleaned' = [cleaned EXCEPT !.calls = 2,
                                  !.twice = clean_text(cleaned.once)]
    /\ UNCHANGED scrapeVars
    /\ UNCHANGED <<text, price, urlcall, pagecall, cardcall>>

NextText == CleanOnce \/ CleanAgain

SpecText == InitText /\ [][NextText]_vars

(***************************************************************************)
(* collect_current_page on its own: one call on a rendered page, with the  *)
(* items and seen_keys an earlier page of the traversal left               *)
(***************************************************************************)
CollectSuppliers ==
    {[supplier |-> n, base_url |-> BaseUrlOf(n)] :
        n \in {"TestSupplier", "ManoMano"}}

CollectCategory == CategoryConfig(RawCategory("c1", <<>>))

\* what scrape_category holds before the call: nothing, or what the
\* collection of an earlier one-card page left
EarlierPages(supplier) ==
    {collect_current_page(cards, <<>>, {}, CollectCategory, supplier) :
        cards \in SeqsUpTo(Cards, 1)}

InitCollect ==
    /\ ScrapeIdle
    /\ PriceIdle /\ UrlIdle /\ CleanIdle /\ ExtractIdle
    /\ \E supplier \in CollectSuppliers :
       \E earlier \in EarlierPages(supplier) :
       \E cards \in SeqsUpTo(Cards, MaxCollectCards) :
          pagecall = [called |-> FALSE, supplier |-> supplier,
                      cards |-> cards, items |-> earlier.items,
                      seen_keys |-> earlier.seen_keys]

CollectPage ==
    /\ ~pagecall.called
    /\ pagecall' =
          [called |-> TRUE, supplier |-> pagecall.supplier,
           cards |-> pagecall.cards, items |-> pagecall.items,
           seen_keys |-> pagecall.seen_keys,
           result |-> collect_current_page(pagecall.cards, pagecall.items,
                                           pagecall.seen_keys,
                                           CollectCategory, pagecall.supplier)]
    /\ UNCHANGED scrapeVars
    /\ UNCHANGED <<text, price, urlcall, cleaned, cardcall>>

NextCollect == CollectPage

SpecCollect == InitCollect /\ [][NextCollect]_vars

(***************************************************************************)
(* extract_from_card on its own: one call on a card, for a generic and for *)
(* the two bespoke suppliers                                               *)
(***************************************************************************)
ExtractSuppliers ==
    {[supplier |-> n, base_url |-> BaseUrlOf(n)] :
        n \in {"TestSupplier", "ManoMano", "Leroy Merlin"}}

\* what the lookups can find in a card
ExtractCards ==
    {[name |-> n, href |-> h, unit |-> u, raises |-> r, price_text |-> t,
      parsed |-> parse_price_with_currency(t), brand |-> b, image |-> i] :
        n \in {"", "A"}, h \in {<<>>, <<"/", "a">>}, u \in {"", "kg"},
        r \in BOOLEAN, t \in CardPriceTexts, b \in {"", "X"},
        i \in {"", "i"}}

InitExtract ==
    /\ ScrapeIdle
    /\ PriceIdle /\ UrlIdle /\ CleanIdle /\ CollectIdle
    /\ \E supplier \in ExtractSuppliers : \E card \in ExtractCards :
          cardcall = [called |-> FALSE, supplier |-> supplier, card |-> card]

ExtractCard ==
    /\ ~cardcall.called
    /\ cardcall' =
          [called |-> TRUE, supplier |-> cardcall.supplier,
           card |-> cardcall.card,
           item |-> extract_from_card(cardcall.card, CollectCategory.name,
                                      cardcall.supplier.supplier,
                                      cardcall.supplier.base_url)]
    /\ UNCHANGED scrapeVars
    /\ UNCHANGED <<text, price, urlcall, cleaned, pagecall>>

NextExtract == ExtractCard

SpecExtract == InitExtract /\ [][NextExtract]_vars

(***************************************************************************)
(* Properties of the run                                                   *)
(***************************************************************************)
InCall == pc \in {"scroll", "paging", "cat_return"}
AtReturn == pc = "cat_return"
Mode == Category.paging_mode
Collections == Len(new_log)
NumCategories ==
    LET RECURSIVE Sum(_)
        Sum(k) == IF k = 0 THEN 0 ELSE Len(cfg[k].categories) + Sum(k - 1)
    IN Sum(Len(cfg))

\* C1, as claimed: scrape_category collects at most max_pages pages in
\* pagination mode and at most scroll_steps times in infinite_scroll mode.
C1_AtMostMaxPages ==
    InCall =>
        /\ Mode = "pagination" => Collections <= Category.max_pages
        /\ Mode = "infinite_scroll" => Collections <= Category.scroll_steps

\* C1, amended: the while loop collects before it tests pages_seen, so the
\* page loop collects at most max(1, max_pages) pages (whatever the cards
\* found); the scroll loop collects at most scroll_steps times.
C1_IterationsBounded ==
    InCall =>
        /\ Mode # "infinite_scroll" =>
               Collections <= Max(1, Category.max_pages)
        /\ Mode = "infinite_scroll" => Collections <= Category.scroll_steps

\* C1 witness: a pagination traversal that found new items, used its whole
\* budget of two or more pages and ended short of the target
C1_BudgetExhausted ==
    /\ AtReturn /\ Mode = "pagination"
    /\ Category.max_pages >= 2
    /\ Collections = Category.max_pages
    /\ new_log[1] > 0
    /\ ~ReachedTarget(items, target_min)

\* C2, as claimed: no two Listings of the written catalog have the same key
\* (supplier, url, name, unit-or-empty).
C2_NoDuplicateKeys ==
    pc = "done" =>
        \A i, j \in 1..Len(output) :
            i # j => KeyOf(output[i]) # KeyOf(output[j])

\* C3, as claimed: every retained Listing has a non-empty name, a non-empty
\* url and a url different from the supplier's base_url.
C3_InclusionInvariant ==
    /\ InCall =>
          \A k \in 1..Len(items) :
              /\ items[k].name # ""
              /\ items[k].url # <<>>
              /\ items[k].url # Supplier.base_url
    /\ \A k \in 1..Len(output) :
          /\ output[k].name # ""
          /\ output[k].url # <<>>
          /\ output[k].url # BaseUrlOf(output[k].supplier)

C5_LoadMoreContinues ==
    (AtReturn /\ Mode = "load_more" /\ Truthy(Category.load_more_button)) =>
        /\ next_clicks = 0
        /\ page.more =>
               \/ ReachedTarget(items, target_min)
               \/ pages_seen >= Category.max_pages

\* C6, as claimed: in mode none the rendered cards are extracted exactly
\* once and no next control is activated.
C6_ModeNoneSinglePass ==
    (AtReturn /\ Mode = "none") => Collections = 1 /\ next_clicks = 0

\* C7, as claimed: the scroll loop ends before scroll_steps steps only when
\* the target is reached or the last two or more consecutive steps each
\* yielded zero new items.
C7_StopsOnlyAfterConsecutiveZero ==
    (AtReturn /\ Mode = "infinite_scroll"
        /\ Collections < Category.scroll_steps) =>
        \/ ReachedTarget(items, target_min)
        \/ /\ Collections >= 2
           /\ new_log[Collections] = 0
           /\ new_log[Collections - 1] = 0

\* C7, amended: the scroll loop ends before scroll_steps steps only when
\* the target is reached or a step from the third on yielded zero new
\* items, whatever the step before it yielded; a zero-yield step among the
\* first two does not end it, and while the loop goes on neither holds.
C7_StopsAtZeroYieldFromThirdStep ==
    /\ (AtReturn /\ Mode = "infinite_scroll"
           /\ Collections < Category.scroll_steps) =>
           \/ ReachedTarget(items, target_min)
           \/ Collections >= 3 /\ new_log[Collections] = 0
    /\ (pc = "scroll" /\ Collections >= 1) =>
           /\ ~ReachedTarget(items, target_min)
           /\ ~(Collections >= 3 /\ new_log[Collections] = 0)

\* C7 witness: the loop ended at its third step, short of scroll_steps and
\* of the target, on one zero-yield step that followed a step with new items
C7_SingleZeroStepEnds ==
    /\ AtReturn /\ Mode = "infinite_scroll"
    /\ Collections = 3 /\ Collections < Category.scroll_steps
    /\ ~ReachedTarget(items, target_min)
    /\ new_log[2] > 0 /\ new_log[3] = 0

\* C8, as claimed: in infinite_scroll mode the rendered cards are extracted
\* at least once before scrape_category returns, for every scroll_steps.
C8_FinalExtraction ==
    (AtReturn /\ Mode = "infinite_scroll") => Collections >= 1

(***************************************************************************)
(* Properties of parse_price_with_currency                                 *)
(***************************************************************************)
DigitsOf(s) == SelectSeq(s, IsDigit)
PriceGroup == NumGroupSearch(CleanPriceText(text))
OnlyPlainSpaces(g) == \A i \in DOMAIN g : IsSpace(g[i]) => g[i] = " "
BeforeComma(g) ==
    LET k == CHOOSE i \in DOMAIN g : g[i] = "," IN SubSeq(g, 1, k - 1)
AfterComma(g) ==
    LET k == CHOOSE i \in DOMAIN g : g[i] = "," IN SubSeq(g, k + 1, Len(g))

\* <whole digits><currency symbol><exactly two digits>
EmbeddedSymbolForm(t) ==
    /\ Len(t) >= 4
    /\ \A i \in 1..(Len(t) - 3) : IsDigit(t[i])
    /\ Contains(CurrencySymbols, t[Len(t) - 2])
    /\ IsDigit(t[Len(t) - 1]) /\ IsDigit(t[Len(t)])

\* C9, as claimed: for a text <whole digits><symbol><two digits> the result
\* is that symbol and the amount whole.cents.
C9_EmbeddedSymbolAmount ==
    (price.called /\ EmbeddedSymbolForm(text)) =>
        /\ price.currency = text[Len(text) - 2]
        /\ price.amount = Amount(SubSeq(text, 1, Len(text) - 3),
                                 SubSeq(text, Len(text) - 1, Len(text)))

FirstSymbolIn(t) ==
    IF Contains(t, "€") THEN "€"
    ELSE IF Contains(t, "$") THEN "$"
    ELSE IF Contains(t, "£") THEN "£"
    ELSE IF Contains(t, "₹") THEN "₹"
    ELSE "None"

\* the amount came from the fallback of lines 56-61: there is one, and it
\* is not float() of the normalised first group
FromFallback == ~price.amount.none /\ ~FloatParses(price.num)

\* C11, as claimed: the currency returned is the first symbol of
\* (€, $, £, ₹) that occurs in the text and None when the text has none, on
\* every return path; empty input returns (None, None).
C11_CurrencyIsFirstSymbol ==
    price.called =>
        /\ price.currency = FirstSymbolIn(text)
        /\ text = <<>> => price.currency = "None" /\ price.amount.none

\* C11, amended: the currency returned is the first symbol of (€, $, £, ₹)
\* that occurs in the text, whatever its position; when the text has none
\* it is None on the numeric-parse and amount-absent paths and € on the
\* embedded-symbol fallback path; empty input returns (None, None).
C11_CurrencyFirstSymbolOrEuroDefault ==
    price.called =>
        /\ FirstSymbolIn(text) # "None" =>
               price.currency = FirstSymbolIn(text)
        /\ FirstSymbolIn(text) = "None" =>
               price.currency = IF FromFallback THEN "€" ELSE "None"
        /\ text = <<>> => price.currency = "None" /\ price.amount.none

\* C11 witness: a text without any symbol parsed through the fallback path
\* ("2<tab>22" gives 2.22): the currency returned is €
C11_EuroDefaultOnFallback ==
    /\ price.called /\ FromFallback
    /\ FirstSymbolIn(text) = "None"
    /\ price.currency = "€"
    /\ price.amount = [none |-> FALSE, whole |-> 2, frac |-> <<"2", "2">>]

(***************************************************************************)
(* Properties of resolve_url                                               *)
(***************************************************************************)
\* RFC 3986: scheme = ALPHA *( ALPHA / DIGIT / "+" / "-" / "." ) ":"
SchemeLetters == {"h", "t", "p", "f"}
SchemeEnd(h) ==
    {k \in 2..Len(h) :
        h[k] = ":" /\ \A i \in 1..(k - 1) : h[i] \in SchemeLetters}
StartsWithScheme(h) == SchemeEnd(h) # {}
SchemeOf(h) == SubSeq(h, 1, SetMin(SchemeEnd(h)) - 1)

\* s without its trailing slashes: the longest prefix not ending in "/"
WithoutTrailingSlashes(s) ==
    LET ends == {k \in 0..Len(s) :
                    /\ k > 0 => s[k] # "/"
                    /\ \A m \in (k + 1)..Len(s) : s[m] = "/"}
    IN SubSeq(s, 1, SetMax(ends))

\* C12, as claimed: for a non-empty href that does not start with a scheme,
\* resolve_url returns the base URL without its trailing slashes followed
\* by the href when the href starts with "/", and by "/" and the href
\* otherwise.
C12_RelativeHrefJoined ==
    (urlcall.called /\ urlcall.href # <<>>
        /\ ~StartsWithScheme(urlcall.href)) =>
        urlcall.result =
            IF urlcall.href[1] = "/"
            THEN WithoutTrailingSlashes(urlcall.base_url) \o urlcall.href
            ELSE WithoutTrailingSlashes(urlcall.base_url) \o <<"/">>
                     \o urlcall.href

\* C13, as claimed: an href that begins with a URL scheme, http or any
\* other, is returned unchanged whatever the base URL is.
C13_SchemeHrefUnchanged ==
    (urlcall.called /\ StartsWithScheme(urlcall.href)) =>
        urlcall.result = urlcall.href

\* C14, as claimed: for an empty or None href resolve_url returns the base
\* URL unchanged, which is "" for an empty base.
C14_EmptyHrefGivesBase ==
    (urlcall.called /\ urlcall.href = <<>>) =>
        urlcall.result = urlcall.base_url

\* C15, as claimed: a protocol-relative href ("//host/...") is resolved
\* against the scheme of the base URL and keeps its own host: the result
\* is the base's scheme, ":" and the href.
C15_ProtocolRelativeKeepsHost ==
    (urlcall.called /\ StartsWith(urlcall.href, <<"/", "/">>)
        /\ StartsWithScheme(urlcall.base_url)) =>
        urlcall.result =
            SchemeOf(urlcall.base_url) \o <<":">> \o urlcall.href

(***************************************************************************)
(* Properties of clean_text                                                *)
(***************************************************************************)
\* C16: clean_text of an empty or None argument is ""; what clean_text
\* returns has no whitespace at either end and no two whitespace characters
\* in a row; and clean_text applied to its own result returns that result.
C16_CleanTextIdempotent ==
    /\ cleaned.calls >= 1 =>
           LET r == cleaned.once IN
           /\ cleaned.s = <<>> => r = <<>>
           /\ r # <<>> => ~IsSpace(r[1]) /\ ~IsSpace(r[Len(r)])
           /\ \A i \in 1..(Len(r) - 1) : ~(IsSpace(r[i]) /\ IsSpace(r[i + 1]))
    /\ cleaned.calls = 2 => cleaned.twice = cleaned.once

\* C16 witness: a text with leading whitespace and an inner tab-newline run
\* cleaned to "a b", and cleaned again to the same
C16_RunsCollapsedTwice ==
    /\ cleaned.calls = 2
    /\ cleaned.s # <<>> /\ IsSpace(cleaned.s[1])
    /\ \E i \in 2..(Len(cleaned.s) - 1) :
           cleaned.s[i] = "\t" /\ cleaned.s[i + 1] = "\n"
    /\ cleaned.once = <<"a", " ", "b">>
    /\ cleaned.twice = cleaned.once

(***************************************************************************)
(* Properties of the run under failures                                    *)
(***************************************************************************)
\* the place of category c of suppliers entry s in the configured order
OrderIndex(s, c) ==
    LET RECURSIVE Before(_)
        Before(k) == IF k = 0 THEN 0 ELSE Len(cfg[k].categories) + Before(k - 1)
    IN Before(s - 1) + c

\* the k-th call has ended: it is not the running one
Finished(k) == k < Len(calls) \/ ~InCall

\* what the calls that did not raise returned, in call order
RECURSIVE ReturnedUpTo(_)
ReturnedUpTo(k) ==
    IF k = 0 THEN <<>>
    ELSE ReturnedUpTo(k - 1)
             \o (IF Finished(k) /\ ~calls[k].raised THEN calls[k].got
                 ELSE <<>>)

InOutput(listing) == \E j \in 1..Len(output) : output[j] = listing

\* C17, as claimed: the run never ends without the output document, and the
\* document written holds every Listing a scrape_category call held when it
\* ended, whether it returned or raised.
C17_OutputWrittenWithAllCollected ==
    /\ pc # "crashed"
    /\ pc = "done" =>
           \A k \in 1..Len(calls) : \A n \in 1..Len(calls[k].held) :
               InOutput(calls[k].held[n])

\* C18: scrape_category is called for the categories one by one in the
\* configured order, after a call that raised as after one that returned:
\* the k-th call is for the k-th category, while a category is awaited
\* every category before it has been called, and when the loops end every
\* category has been called; the result is what the calls that returned
\* gave, in call order, a raise of a later call dropping none of it.
C18_RaiseSkipsOnlyItsCategory ==
    pc \notin {"main", "crashed"} =>
        /\ \A k \in 1..Len(calls) :
               OrderIndex(calls[k].si, calls[k].ci) = k
        /\ pc = "categories" => Len(calls) = OrderIndex(si, ci) - 1
        /\ InCall => Len(calls) = OrderIndex(si, ci)
        /\ pc \in {"close", "write", "done"} => Len(calls) = NumCategories
        /\ all_items \o supplier_items = ReturnedUpTo(Len(calls))

\* C18 witness: of three categories the second raised; the first and the
\* third returned Listings and all of them are in the result
C18_MiddleCategoryRaised ==
    /\ pc = "close" /\ Len(calls) = 3
    /\ ~calls[1].raised /\ calls[1].got # <<>>
    /\ calls[2].raised
    /\ ~calls[3].raised /\ calls[3].got # <<>>
    /\ all_items = calls[1].got \o calls[3].got

\* C19, as claimed: when a step to the next page failed (the control was
\* not visible, activating it threw, or locating it threw) the call
\* returned, and returned every Listing it held at that point.
C19_PaginationFailureKeepsItems ==
    \A k \in 1..Len(calls) :
        (Finished(k) /\ calls[k].ended \in
            {"not_visible", "click_throws", "is_visible_throws"}) =>
            /\ ~calls[k].raised
            /\ calls[k].got = calls[k].held

(***************************************************************************)
(* Properties of collect_current_page                                      *)
(***************************************************************************)
\* the Listing of card i of the page
ListingOf(i) ==
    extract_from_card(pagecall.cards[i], CollectCategory.name,
                      pagecall.supplier.supplier, pagecall.supplier.base_url)

\* card i is processed without failure and its Listing is valid (line 607)
GoodCard(i) ==
    /\ ~pagecall.cards[i].raises
    /\ Retained(ListingOf(i), pagecall.supplier.base_url)

\* the good cards that are no duplicates: of an item held before the call
\* or of an earlier good card of the page
KeptCards ==
    {i \in DOMAIN pagecall.cards :
        /\ GoodCard(i)
        /\ KeyOf(ListingOf(i)) \notin pagecall.seen_keys
        /\ \A j \in 1..(i - 1) :
               GoodCard(j) => KeyOf(ListingOf(j)) # KeyOf(ListingOf(i))}

\* the Listings of the kept cards in card order
KeptListings ==
    LET idx == SelectSeq([i \in DOMAIN pagecall.cards |-> i],
                         LAMBDA i : i \in KeptCards)
    IN [n \in DOMAIN idx |-> ListingOf(idx[n])]

\* C20: one page collection skips a card whose processing fails and goes on
\* with the cards after it: the Listings it appends are exactly those of
\* the non-failing, valid, non-duplicate cards, in card order, and it
\* returns their number.
C20_FailingCardSkipped ==
    pagecall.called =>
        /\ pagecall.result.items = pagecall.items \o KeptListings
        /\ pagecall.result.collected = Cardinality(KeptCards)
        /\ pagecall.result.seen_keys =
               pagecall.seen_keys
                   \cup {KeyOf(ListingOf(i)) : i \in KeptCards}

\* C20 witness: a page of three cards whose second card fails: the first
\* and the third are collected
C20_CardsAroundFailureCollected ==
    /\ pagecall.called
    /\ Len(pagecall.cards) = 3
    /\ pagecall.cards[2].raises
    /\ KeptCards = {1, 3}
    /\ \A i \in KeptCards : ListingOf(i).url # <<>>
    /\ pagecall.result.collected = 2

ListingKey(it) == <<it.supplier, it.url, it.name, it.unit>>

IsPrefix(a, b) == Len(a) <= Len(b) /\ SubSeq(b, 1, Len(a)) = a

ItemsDeduplicated ==
    InCall =>
        /\ \A i, j \in 1..Len(items) :
               i # j => ListingKey(items[i]) # ListingKey(items[j])
        /\ Len(items) = Cardinality(seen_keys)
        /\ seen_keys = {ListingKey(items[i]) : i \in 1..Len(items)}

ItemsOnlyAppended ==
    (InCall /\ InCall') =>
        /\ IsPrefix(items, items')
        /\ seen_keys \subseteq seen_keys'
        /\ new_log' # new_log =>
               /\ Len(new_log') = Len(new_log) + 1
               /\ new_log'[Len(new_log')] = Len(items') - Len(items)

\* C22: during one scrape_category call no two Listings of items have the
\* same key (supplier, url, name, unit), items has as many entries as
\* seen_keys has keys, every step leaves the items held before in place and
\* in order, and the count a collection returns is the number of Listings
\* it appended.
C22_ItemsDedupedAndAppendOnly ==
    []ItemsDeduplicated /\ [][ItemsOnlyAppended]_vars

\* C22 witness: a call whose first collection appended a Listing, whose
\* second appended none and whose third appended another
C22_CollectionAddsNoneThenOne ==
    /\ InCall
    /\ Collections = 3
    /\ new_log[1] > 0 /\ new_log[2] = 0 /\ new_log[3] > 0
    /\ Len(items) = new_log[1] + new_log[3]

(***************************************************************************)
(* Properties of collect_current_page for the bespoke suppliers            *)
(***************************************************************************)
IsSentinel(it, base_url) ==
    \/ it.name = "Error extracting product" /\ it.url = base_url
    \/ "error" \in DOMAIN it

\* C23: the sentinel Listing of a failed bespoke extraction is never
\* appended to items and never counted: after a collection no Listing of
\* items is a sentinel or carries an "error" field, and the count returned
\* is the number of Listings appended.
C23_SentinelNeverCollected ==
    pagecall.called =>
        /\ \A n \in 1..Len(pagecall.result.items) :
               ~IsSentinel(pagecall.result.items[n],
                           pagecall.supplier.base_url)
        /\ pagecall.result.collected =
               Len(pagecall.result.items) - Len(pagecall.items)

\* C23 witness: a ManoMano page with a card whose extraction failed next to
\* cards that were collected: the sentinel was produced and dropped
C23_ManoManoSentinelDropped ==
    /\ pagecall.called
    /\ pagecall.supplier.supplier = "ManoMano"
    /\ \E i \in DOMAIN pagecall.cards :
           /\ pagecall.cards[i].raises
           /\ IsSentinel(ListingOf(i), pagecall.supplier.base_url)
    /\ pagecall.result.collected = Len(pagecall.cards) - 1
    /\ pagecall.result.collected >= 1

====
